---- MODULE Spec2Model ----
(***************************************************************************)
(* Model of the orchestration layer of the virtual interview system        *)
(* (src/main.py): VirtualInterviewSystem and the managers it composes.     *)
(*                                                                         *)
(* Japanese dictionary keys of the persona text format are written in      *)
(* ASCII: "ID" = 'ID', "Name" = '名前', "Age" = '年齢', "Gender" = '性別', *)
(* "Occupation" = '職業'; the suffix of an age group is "s" = '代'.        *)
(***************************************************************************)
EXTENDS Integers, Sequences, FiniteSets, TLC

VARIABLES
    survey_requirements, \* state.survey_requirements: None or Some(record)
    personas,            \* state.personas
    chat_sessions,       \* state.chat_sessions
    fixed_interviews,    \* state.fixed_interviews
    summary,             \* state.summary: None or Some(record)
    now,                 \* datetime.now() truncated to the second
    sent,                \* history: the successful send_chat_message calls
    summaries,           \* history: the number of summaries generated
    session_state,       \* frontend: st.session_state (personas,
                         \* current_session, chat_messages)
    last                 \* history: the outcome of the latest operation,
                         \* with the provider exchanges of a returning
                         \* collect_survey_requirements or generate_summary

vars == <<survey_requirements, personas, chat_sessions, fixed_interviews,
          summary, now, sent, summaries, session_state, last>>

(***************************************************************************)
(* Bounds                                                                  *)
(***************************************************************************)
MaxLines == 3       \* lines of a persona response text
MaxCount == 2       \* largest count passed to generate_personas
MaxSize == 4        \* personas, sessions, exchanges, interviews and answers kept
MaxPersonas == 2    \* personas kept
MaxClock == 1       \* seconds the clock may advance
MaxResponseLines == 5   \* lines of a provider response to the UI
MaxPersonaCount == 4    \* largest persona_count entered in the UI
MaxExchanges == 1       \* messages sent in a UI chat

(***************************************************************************)
(* Optional values (Python None / a value)                                 *)
(***************************************************************************)
None == <<>>
Some(x) == <<x>>

RECURSIVE SeqFilter(_, _)
SeqFilter(s, keep) ==
    IF s = <<>> THEN <<>>
    ELSE IF Head(s) \in keep THEN <<Head(s)>> \o SeqFilter(Tail(s), keep)
         ELSE SeqFilter(Tail(s), keep)

Range(s) == {s[i] : i \in 1..Len(s)}

(***************************************************************************)
(* The text returned by the provider for generate_personas, as a sequence  *)
(* of lines.  A line is blank, a "key: value" line, or a line without ':'. *)
(***************************************************************************)
BlankLine == [kind |-> "blank", key |-> "", value |-> ""]
TextLine == [kind |-> "text", key |-> "", value |-> ""]
KV(k, v) == [kind |-> "kv", key |-> k, value |-> v]
NL == [kind |-> "newline", key |-> "", value |-> ""]

\* result.strip(): leading and trailing blank lines disappear
RECURSIVE LStrip(_)
LStrip(t) ==
    IF t # <<>> /\ Head(t) = BlankLine THEN LStrip(Tail(t)) ELSE t

RECURSIVE RStrip(_)
RStrip(t) ==
    IF t # <<>> /\ t[Len(t)] = BlankLine THEN RStrip(SubSeq(t, 1, Len(t) - 1))
    ELSE t

Strip(t) == RStrip(LStrip(t))

\* the characters of the text at line granularity: the lines joined by '\n',
\* a blank line contributing no character of its own
RECURSIVE Tokens(_)
Tokens(t) ==
    IF t = <<>> THEN <<>>
    ELSE (IF Head(t) = BlankLine THEN <<>> ELSE <<Head(t)>>)
         \o (IF Len(t) > 1 THEN <<NL>> ELSE <<>>)
         \o Tokens(Tail(t))

\* str.split('\n\n'): cut at every "\n\n", scanning left to right
RECURSIVE SplitSections(_, _)
SplitSections(toks, cur) ==
    IF toks = <<>> THEN <<cur>>
    ELSE IF Len(toks) >= 2 /\ toks[1] = NL /\ toks[2] = NL
         THEN <<cur>> \o SplitSections(SubSeq(toks, 3, Len(toks)), <<>>)
         ELSE SplitSections(Tail(toks), Append(cur, Head(toks)))

\* section.strip().split('\n'): the lines of one section
SectionLines(section) == SeqFilter(section, Range(section) \ {NL})

Sections(result) == SplitSections(Tokens(Strip(result)), <<>>)

(***************************************************************************)
(* VirtualPersonaGenerator.generate_personas: parsing of the response      *)
(***************************************************************************)
MaxAge == 99
\* int(s) of a decimal string; None when int() raises ValueError
Decimal == [n \in 0..MaxAge |-> ToString(n)]
DecimalStrings == {Decimal[n] : n \in 0..MaxAge}
ParseInt(s) ==
    IF s \in DecimalStrings
    THEN Some(CHOOSE n \in 0..MaxAge : Decimal[n] = s)
    ELSE None

\* persona_data: the dict built from the lines of a section, later keys
\* overwriting earlier ones; Get is dict.get(key, default)
RECURSIVE Get(_, _, _)
Get(lines, key, default) ==
    IF lines = <<>> THEN default
    ELSE LET l == lines[Len(lines)]
         IN IF l.kind = "kv" /\ l.key = key THEN l.value
            ELSE Get(SubSeq(lines, 1, Len(lines) - 1), key, default)

DefaultAge == "30"

\* the age of a section: int(persona_data.get('Age', 30))
SectionAge(lines) == ParseInt(Get(lines, "Age", DefaultAge))

\* VirtualPersona(...) built from section number i (0-based)
SectionPersona(lines, i) ==
    [id |-> Get(lines, "ID", "persona_" \o ToString(i + 1)),
     name |-> Get(lines, "Name", "Persona" \o ToString(i + 1)),
     age |-> SectionAge(lines)[1],
     gender |-> Get(lines, "Gender", "female"),
     occupation |-> Get(lines, "Occupation", "employee"),
     household_composition |-> Get(lines, "Household", "single"),
     income_level |-> Get(lines, "Income", "300-500"),
     lifestyle |-> Get(lines, "Lifestyle", "normal"),
     shopping_behavior |-> Get(lines, "Shopping", "monthly"),
     personality |-> Get(lines, "Personality", "careful"),
     background_story |-> Get(lines, "Background", "background")]

\* the loop over enumerate(sections): blank sections are skipped, a section
\* whose VirtualPersona(...) raises is logged and skipped
RECURSIVE ParseSections(_, _)
ParseSections(sections, i) ==
    IF i >= Len(sections) THEN <<>>
    ELSE LET lines == SectionLines(sections[i + 1])
         IN (IF lines = <<>> \/ SectionAge(lines) = None THEN <<>>
             ELSE <<SectionPersona(lines, i)>>)
            \o ParseSections(sections, i + 1)

\* the list generate_personas returns for a provider response
ParsePersonas(result) == ParseSections(Sections(result), 0)

(***************************************************************************)
(* SurveyRequirementsCollector.parse_requirements                          *)
(***************************************************************************)
RequiredFields == {"product_category", "target_age_range", "target_gender",
                   "survey_purpose", "key_questions"}

DefaultKeyQuestions == <<"usage experience", "purchase drivers",
                         "improvement points">>

\* the except branch: the raw answers copied into the record
FallbackRequirements_partial(answers) ==
    [product_category |-> answers[1],
     target_age_range |-> answers[2],
     target_gender |-> answers[3],
     survey_purpose |-> answers[4],
     key_questions |-> <<>>,
     additional_requirements |-> ""]
FallbackRequirements(answers) ==
    [product_category |-> answers[1],
     target_age_range |-> answers[2],
     target_gender |-> answers[3],
     survey_purpose |-> answers[4],
     key_questions |-> DefaultKeyQuestions,
     additional_requirements |-> answers[5]]

\* SurveyRequirements(**data): additional_requirements defaults to ""
RequirementsFromData(data) ==
    [product_category |-> data["product_category"],
     target_age_range |-> data["target_age_range"],
     target_gender |-> data["target_gender"],
     survey_purpose |-> data["survey_purpose"],
     key_questions |-> data["key_questions"],
     additional_requirements |->
         IF "additional_requirements" \in DOMAIN data
         THEN data["additional_requirements"] ELSE ""]

\* json.loads(result) followed by SurveyRequirements(**data); a response is
\* [kind, data]: kind "invalid" (json.loads raises), "array" (valid JSON that
\* is no object) or "object" with data the key -> value mapping
parse_requirements(answers, result) ==
    IF result.kind = "object" /\ RequiredFields \subseteq DOMAIN result.data
    THEN RequirementsFromData(result.data)
    ELSE FallbackRequirements(answers)

(***************************************************************************)
(* Lookups of VirtualInterviewSystem                                       *)
(***************************************************************************)
\* not self.state.survey_requirements
RequirementsMissing_unchecked(sr) == FALSE
RequirementsMissing(sr) == sr = None

\* next((p for p in self.state.personas if p.id == persona_id), None)
FindPersona_first(ps, persona_id) ==
    IF ps = <<>> THEN None ELSE Some(ps[1])
FindPersona_placeholder(ps, persona_id) ==
    IF \E i \in 1..Len(ps) : ps[i].id = persona_id
    THEN Some(ps[CHOOSE i \in 1..Len(ps) : ps[i].id = persona_id])
    ELSE Some(SectionPersona(<<KV("ID", persona_id)>>, 0))
FindPersona(ps, persona_id) ==
    IF \E i \in 1..Len(ps) : ps[i].id = persona_id
    THEN Some(ps[CHOOSE i \in 1..Len(ps) :
                  /\ ps[i].id = persona_id
                  /\ \A j \in 1..(i - 1) : ps[j].id # persona_id])
    ELSE None

\* next((s for s in self.state.chat_sessions if s.session_id == session_id),
\* None), as the index of the session found (0 for None)
FindSession(ss, session_id) ==
    IF \E i \in 1..Len(ss) : ss[i].session_id = session_id
    THEN CHOOSE i \in 1..Len(ss) :
             /\ ss[i].session_id = session_id
             /\ \A j \in 1..(i - 1) : ss[j].session_id # session_id
    ELSE 0

\* self.state.personas.extend(personas)
Extend_replacing(old, new) == new
Extend(old, new) == old \o new

\* [p for p in self.state.personas if p.id in persona_ids]
SelectedPersonas_first(ps, persona_ids) ==
    LET matching == {i \in 1..Len(ps) : ps[i].id \in Range(persona_ids)}
    IN IF matching = {} THEN <<>>
       ELSE <<ps[CHOOSE i \in matching : \A j \in matching : i <= j]>>
RECURSIVE SelectedPersonas(_, _)
SelectedPersonas(ps, persona_ids) ==
    IF ps = <<>> THEN <<>>
    ELSE (IF Head(ps).id \in Range(persona_ids) THEN <<Head(ps)>> ELSE <<>>)
         \o SelectedPersonas(Tail(ps), persona_ids)

(***************************************************************************)
(* The provider's text in reply to a chat or interview prompt, when it     *)
(* does not raise: the text is tied to the prompt it answers.              *)
(***************************************************************************)
Reply(prompt) == <<"reply", prompt>>

(***************************************************************************)
(* ChatInterviewManager                                                    *)
(***************************************************************************)
\* the prompt of get_persona_response: the persona context and the message
ChatPrompt(persona, user_message) ==
    <<"chat", persona.id, persona.name, user_message>>

\* f"chat_{persona.id}_{datetime.now().strftime('%Y%m%d_%H%M%S')}"
SessionId(persona_id, time) == <<"chat", persona_id, time>>

create_session_greeting(persona, time) ==
    [session_id |-> SessionId(persona.id, time),
     persona |-> persona,
     messages |-> <<[role |-> "assistant", content |-> "hello",
                     timestamp |-> time]>>,
     start_time |-> time,
     end_time |-> None]

create_session(persona, time) ==
    [session_id |-> SessionId(persona.id, time),
     persona |-> persona,
     messages |-> <<>>,
     start_time |-> time,
     end_time |-> None]

ChatMessage(role, content, time) ==
    [role |-> role, content |-> content, timestamp |-> time]

\* the two appends of get_persona_response
AppendTurns(messages, user_message, response, time) ==
    messages \o <<ChatMessage("user", user_message, time),
                  ChatMessage("assistant", response, time)>>

(***************************************************************************)
(* FixedQuestionInterviewManager.conduct_interviews                        *)
(* failure is the number of the first call of _get_persona_answer on which *)
(* the provider raises, 0 when it raises on none.                          *)
(***************************************************************************)
\* the prompt of _get_persona_answer: the persona context and the question
AnswerPrompt(persona, question) ==
    <<"question", persona.id, persona.name, question>>

\* the number of the call made for question qi of persona pi
CallIndex(pi, qi, questions) == (pi - 1) * Len(questions) + qi

\* the prompts the nested loops send to the provider if no call raises, in
\* call order: one _get_persona_answer per question, per persona
IssuedPrompts(selected, questions) ==
    [k \in 1..(Len(selected) * Len(questions)) |->
        AnswerPrompt(selected[((k - 1) \div Len(questions)) + 1],
                     questions[((k - 1) % Len(questions)) + 1])]

NumCalls_cached(selected, questions) ==
    Cardinality(Range(IssuedPrompts(selected, questions)))

\* the calls the nested loops would make if none raised
NumCalls(selected, questions) == Len(IssuedPrompts(selected, questions))

conduct_interviews_anonymous(selected, questions) ==
    [pi \in 1..Len(selected) |->
        [persona |-> [selected[pi] EXCEPT !.name = "anonymous"],
         questions |-> questions,
         answers |-> [qi \in 1..Len(questions) |->
                         Reply(AnswerPrompt(selected[pi], questions[qi]))]]]

\* the interviews list built when no call raises
conduct_interviews(selected, questions) ==
    [pi \in 1..Len(selected) |->
        [persona |-> selected[pi],
         questions |-> questions,
         answers |-> [qi \in 1..Len(questions) |->
                         Reply(AnswerPrompt(selected[pi], questions[qi]))]]]

(***************************************************************************)
(* InterviewAnalyzer                                                       *)
(* A provider response is the sequence of the lines result.split('\n')     *)
(* gives (one line at least: ''.split('\n') is ['']), a line the sequence  *)
(* of its characters.                                                      *)
(***************************************************************************)
Space == " "

\* line.strip(): leading and trailing white space disappears
RECURSIVE LStripChars(_)
LStripChars(line) ==
    IF line # <<>> /\ Head(line) = Space THEN LStripChars(Tail(line))
    ELSE line

RECURSIVE RStripChars(_)
RStripChars(line) ==
    IF line # <<>> /\ line[Len(line)] = Space
    THEN RStripChars(SubSeq(line, 1, Len(line) - 1))
    ELSE line

StripChars(line) == RStripChars(LStripChars(line))

\* [line.strip() for line in result.split('\n') if line.strip()]
RECURSIVE StrippedLines(_)
StrippedLines(result) ==
    IF result = <<>> THEN <<>>
    ELSE (IF StripChars(Head(result)) # <<>>
          THEN <<StripChars(Head(result))>> ELSE <<>>)
         \o StrippedLines(Tail(result))

\* s[:n]
Take(s, n) == SubSeq(s, 1, IF Len(s) < n THEN Len(s) ELSE n)

MaxKeyInsights == 5
MaxRecommendations == 3

\* the return value of _analyze_qualitative_data for a provider response
KeyInsights_unstripped(result) ==
    Take(SeqFilter(result, Range(result) \ {<<>>}), MaxKeyInsights)
KeyInsights(result) == Take(StrippedLines(result), MaxKeyInsights)

\* the return value of _generate_recommendations for a provider response
Recommendations(result) == Take(StrippedLines(result), MaxRecommendations)

\* f"{(persona.age // 10) * 10}s"
AgeGroup(persona) == ToString((persona.age \div 10) * 10) \o "s"

\* the counting loops of _analyze_quantitative_data, on the keys of the
\* personas in their order: key -> number of personas
Distribution_presence(keys) == [k \in Range(keys) |-> 1]
Distribution(keys) ==
    [k \in Range(keys) |-> Cardinality({i \in 1..Len(keys) : keys[i] = k})]

_analyze_quantitative_data(ps) ==
    [demographics |->
        [age_distribution |->
             Distribution([i \in 1..Len(ps) |-> AgeGroup(ps[i])]),
         gender_distribution |->
             Distribution([i \in 1..Len(ps) |-> ps[i].gender]),
         occupation_distribution |->
             Distribution([i \in 1..Len(ps) |-> ps[i].occupation])],
     response_patterns |-> <<>>]

\* all_content: the assistant messages of the sessions, then the answers of
\* the fixed interviews
RECURSIVE AssistantContent(_)
AssistantContent(messages) ==
    IF messages = <<>> THEN <<>>
    ELSE (IF Head(messages).role = "assistant"
          THEN <<Head(messages).content>> ELSE <<>>)
         \o AssistantContent(Tail(messages))

RECURSIVE SessionContent(_)
SessionContent(ss) ==
    IF ss = <<>> THEN <<>>
    ELSE AssistantContent(Head(ss).messages) \o SessionContent(Tail(ss))

RECURSIVE InterviewContent(_)
InterviewContent(fi) ==
    IF fi = <<>> THEN <<>>
    ELSE Head(fi).answers \o InterviewContent(Tail(fi))

AllContent(ss, fi) == SessionContent(ss) \o InterviewContent(fi)

\* the variables of the two prompts
InsightPrompt(ss, fi) == [content |-> AllContent(ss, fi)]

\* state.survey_requirements.product_category if state.survey_requirements
\* else ""
ProductCategory_unset(sr) ==
    IF sr = None THEN "None" ELSE sr[1].product_category
ProductCategory(sr) == IF sr = None THEN "" ELSE sr[1].product_category

SurveyPurpose(sr) == IF sr = None THEN "" ELSE sr[1].survey_purpose

RecommendationPrompt(sr, insights) ==
    [insights |-> insights,
     product_category |-> ProductCategory(sr),
     survey_purpose |-> SurveyPurpose(sr)]

\* len(state.chat_sessions) + len(state.fixed_interviews)
TotalInterviews_sessions(ss, fi) == Len(ss)
TotalInterviews(ss, fi) == Len(ss) + Len(fi)

InterviewSummary(ps, ss, fi, key_insights, recommendations) ==
    [total_personas |-> Len(ps),
     total_interviews |-> TotalInterviews(ss, fi),
     key_insights |-> key_insights,
     quantitative_results |-> _analyze_quantitative_data(ps),
     recommendations |-> recommendations]

\* self.state.summary = summary
StoreSummary_merging(old, new) ==
    IF old = None THEN <<new>>
    ELSE <<[new EXCEPT !.key_insights = old[1].key_insights \o @]>>
StoreSummary(old, new) == <<new>>

\* ChartGenerator.generate_demographics_charts: the charts drawn, one for each
\* of the two distributions that is not empty
Charts(s) ==
    LET demographics == s.quantitative_results.demographics
    IN {c \in {"age_distribution", "gender_distribution"} :
            DOMAIN demographics[c] # {}}

(***************************************************************************)
(* Inputs of the operations                                                *)
(***************************************************************************)
SeqsUpTo(S, n) == UNION {[1..k -> S] : k \in 0..n}

\* the five answers passed to collect_survey_requirements
AnswerLists == {<<"snacks", "20s", "female", "new product", "none">>}

\* provider responses to the requirements prompt
RequirementResponses ==
    {[kind |-> "invalid", data |-> <<>>],
     [kind |-> "array", data |-> <<>>],
     [kind |-> "object",
      data |-> [product_category |-> "food", target_age_range |-> "20-30",
                target_gender |-> "both", survey_purpose |-> "launch"]],
     [kind |-> "object",
      data |-> [product_category |-> "food", target_age_range |-> "20-30",
                target_gender |-> "both", survey_purpose |-> "launch",
                key_questions |-> <<"q">>]]}

\* provider responses to the persona prompt
PersonaLines == {BlankLine, TextLine, KV("ID", "persona_2"), KV("Age", "abc")}
PersonaTexts == SeqsUpTo(PersonaLines, MaxLines)

PersonaIdArgs == {"persona_1", "persona_2", "unknown"}
SessionIdArgs == {SessionId(p, t) : p \in PersonaIdArgs, t \in 0..MaxClock}
UserMessages == {"m1", "m2"}
IdLists ==
    {<<>>, <<"persona_1">>, <<"persona_2">>, <<"unknown">>,
     <<"persona_1", "persona_2">>, <<"persona_2", "persona_1">>,
     <<"persona_1", "persona_1">>, <<"unknown", "persona_1">>,
     <<"persona_2", "unknown">>}
QuestionLists ==
    {<<>>, <<"Q1">>, <<"Q2">>, <<"Q1", "Q2">>, <<"Q2", "Q1">>, <<"Q1", "Q1">>}

\* the inputs of the orchestrator-wide specification
FewResponses == {[kind |-> "invalid", data |-> <<>>]}
FewTexts == {<<TextLine>>, <<TextLine, BlankLine, TextLine>>}
FewIds == {"persona_1", "unknown"}
FewSessionIds == {SessionId(p, t) : p \in FewIds, t \in 0..MaxClock}
FewMessages == {"m1"}
FewIdLists == {<<>>, <<"persona_1">>, <<"unknown">>,
               <<"persona_2", "persona_1">>}
FewQuestionLists == {<<>>, <<"Q1">>}

\* provider responses to the two prompts of the analyzer: some leading lines
\* (empty, blank, plain or padded) followed by one line repeated
MaxInsightLines == 6
MaxRecommendationLines == 4
LeadingLines ==
    {<<>>, <<<<>>>>, <<<<Space>>>>, <<<<"a">>>>, <<<<Space, "b", Space>>>>,
     <<<<"a">>, <<>>>>, <<<<Space>>, <<"a">>>>,
     <<<<Space, "b", Space>>, <<Space>>, <<"a">>>>}
RepeatedLines == {<<"a">>, <<Space, "b", Space>>}
Repeat(line, n) == [i \in 1..n |-> line]
ResponsesUpTo(n) ==
    {leading \o Repeat(line, k) :
        leading \in LeadingLines, line \in RepeatedLines, k \in 0..n} \ {<<>>}
InsightTexts == ResponsesUpTo(MaxInsightLines)
RecommendationTexts == ResponsesUpTo(MaxRecommendationLines)
FewInsightTexts == {<<<<"a">>>>, <<<<Space, "b", Space>>, <<>>>>}
FewRecommendationTexts == {<<<<"a">>>>}

\* generate_personas on each response text, tabulated
RECURSIVE Tabulate(_)
Tabulate(texts) ==
    IF texts = {} THEN <<>>
    ELSE LET text == CHOOSE t \in texts : TRUE
         IN (text :> ParsePersonas(text)) @@ Tabulate(texts \ {text})

\* the texts grouped by their first two lines, and the tables of the groups
\* merged
Prefix(text) == IF Len(text) <= 2 THEN text ELSE SubSeq(text, 1, 2)
TextGroups ==
    {{t \in PersonaTexts : Prefix(t) = p} : p \in {Prefix(t) : t \in PersonaTexts}}

RECURSIVE TabulateGroups(_)
TabulateGroups(groups) ==
    IF groups = {} THEN <<>>
    ELSE LET group == CHOOSE g \in groups : TRUE
         IN Tabulate(group) @@ TabulateGroups(groups \ {group})

\* provider responses whose personas differ in age, gender and occupation
DemographicTexts ==
    {<<KV("Age", "25"), KV("Gender", "Female")>>,
     <<KV("Age", "29"), KV("Gender", "female")>>,
     <<KV("Age", "31"), KV("Occupation", "Employee")>>,
     <<KV("Age", "9")>>,
     <<KV("Gender", "Female"), BlankLine, KV("Gender", "female")>>}

GeneratedFrom == TabulateGroups(TextGroups) @@ Tabulate(DemographicTexts)

\* _analyze_qualitative_data and _generate_recommendations on each response
\* text, tabulated
AnalysisTexts ==
    InsightTexts \cup RecommendationTexts \cup FewInsightTexts
        \cup FewRecommendationTexts

RECURSIVE TabulateAnalysis(_)
TabulateAnalysis(texts) ==
    IF texts = {} THEN <<>>
    ELSE LET text == CHOOSE t \in texts : TRUE
         IN (text :> [key_insights |-> KeyInsights(text),
                      recommendations |-> Recommendations(text)])
                @@ TabulateAnalysis(texts \ {text})

\* the tables of the texts of each length, merged
RECURSIVE TabulateByLength(_, _)
TabulateByLength(texts, n) ==
    IF texts = {} THEN <<>>
    ELSE TabulateAnalysis({t \in texts : Len(t) = n})
             @@ TabulateByLength({t \in texts : Len(t) # n}, n + 1)

AnalysisOf == TabulateByLength(AnalysisTexts, 1)

\* InterviewAnalyzer.generate_summary; first and second are what the provider
\* does on the insight call and on the recommendation call: Some(text), or
\* None when it raises.  The result is None when the method raises.
analyzer_generate_summary_substituting(ps, ss, fi, first, second) ==
    IF first = None THEN None
    ELSE <<InterviewSummary(ps, ss, fi, AnalysisOf[first[1]].key_insights,
                            IF second = None THEN <<>>
                            ELSE AnalysisOf[second[1]].recommendations)>>
analyzer_generate_summary(ps, ss, fi, first, second) ==
    IF first = None \/ second = None THEN None
    ELSE <<InterviewSummary(ps, ss, fi, AnalysisOf[first[1]].key_insights,
                            AnalysisOf[second[1]].recommendations)>>

\* the provider calls generate_summary makes, each with the variables of its
\* prompt and what the provider did; the second is made only when the first
\* returned
Exchanges(sr, ss, fi, first, second) ==
    <<[prompt |-> InsightPrompt(ss, fi), reply |-> first]>>
    \o (IF first = None THEN <<>>
        ELSE <<[prompt |-> RecommendationPrompt(
                               sr, AnalysisOf[first[1]].key_insights),
                reply |-> second]>>)

\* what a provider call does: Some(text), or None when it raises
Raises == None
Outcomes(texts) == {Raises} \cup {Some(t) : t \in texts}


(***************************************************************************)
(* frontend.py: the persona-generation step and the chat tab               *)
(* A persona of the UI is a dict, modelled as a function from its keys.    *)
(* A response line '"key": "value",' is KV(key, value); a line without a   *)
(* colon and a quote is TextLine or BlankLine.                             *)
(***************************************************************************)
MinPersonaCount == 3     \* st.number_input(..., min_value=3, ...)

EmptyDict == <<>>

\* current_persona[key] = value
DictSet(dict, key, value) ==
    [k \in DOMAIN dict \cup {key} |-> IF k = key THEN value ELSE dict[k]]

SampleOccupations ==
    <<"employee", "freelance", "homemaker", "student", "civil servant">>
SampleHouseholds == <<"single", "couple", "with family", "room share">>
SampleIncomes == <<"200-300", "300-500", "500-800", "800+">>
SampleLifestyles == <<"active", "own pace", "regular", "free">>
SampleShopping == <<"monthly", "weekly", "as needed", "often">>
SamplePersonalities == <<"careful", "adventurous", "practical", "trendy">>
SampleHobbies == <<"reading", "sports", "cooking", "travel", "games">>

\* the sample persona appended for list position i (0-based)
SamplePersona(i, persona_count) ==
    [id |-> "persona_" \o ToString(i + 1),
     name |-> "SamplePersona" \o ToString(i + 1),
     age |-> 25 + (i * 5),
     gender |-> IF i % 2 = 0 THEN "female" ELSE "male",
     occupation |-> SampleOccupations[(i % 5) + 1],
     household_composition |-> SampleHouseholds[(i % 4) + 1],
     income_level |-> SampleIncomes[(i % 4) + 1],
     lifestyle |-> SampleLifestyles[(i % 4) + 1],
     shopping_behavior |-> SampleShopping[(i % 4) + 1],
     personality |-> SamplePersonalities[(i % 4) + 1],
     hobbies |-> SampleHobbies[(i % 5) + 1],
     background_story |-> <<"story", persona_count>>]

\* for i in range(persona_count): personas.append({...})
SamplePersonas(persona_count) ==
    [k \in 1..persona_count |-> SamplePersona(k - 1, persona_count)]

\* the loop over the lines of ai_response, and the append after it
RECURSIVE ExtractPersonas(_, _, _)
ExtractPersonas(lines, current_persona, extracted) ==
    IF lines = <<>>
    THEN IF current_persona # EmptyDict
         THEN Append(extracted, current_persona)
         ELSE extracted
    ELSE LET line == Head(lines)
             starts == line.kind = "kv" /\ line.key = "id"
             kept == IF starts /\ current_persona # EmptyDict
                     THEN Append(extracted, current_persona)
                     ELSE extracted
             opened == IF starts THEN EmptyDict ELSE current_persona
             filled == IF line.kind = "kv"
                       THEN DictSet(opened, line.key, line.value)
                       ELSE opened
         IN ExtractPersonas(Tail(lines), filled, kept)

\* while len(personas) < persona_count: personas.append({...})
RECURSIVE PadPersonas(_, _)
PadPersonas(list, persona_count) ==
    IF Len(list) < persona_count
    THEN PadPersonas(Append(list, SamplePersona(Len(list), persona_count)),
                     persona_count)
    ELSE list

\* the list the step stores: by path "no_api_key", "provider_error" or
\* "response" (the provider answered with the lines ai_response)
UIPersonas(persona_count, path, ai_response) ==
    IF path = "response"
    THEN PadPersonas(ExtractPersonas(ai_response, EmptyDict, <<>>),
                     persona_count)
    ELSE SamplePersonas(persona_count)

InitialSessionState ==
    [personas |-> <<>>, current_session |-> None, chat_messages |-> <<>>]

\* python truth value of st.session_state.current_session (None or an int)
Truthy(current_session) ==
    current_session # None /\ current_session[1] # 0

(***************************************************************************)
(* app.py: download_excel                                                  *)
(***************************************************************************)
HTTPException(status_code, detail) ==
    [raised |-> TRUE, status_code |-> status_code, detail |-> detail]

FileResponse(file_path) ==
    [raised |-> FALSE, status_code |-> 200, detail |-> file_path]

\* the body of the try block
DownloadBody(filename, exists) ==
    IF ~exists THEN HTTPException(404, "File not found")
    ELSE FileResponse(<<"output", filename>>)

\* try: ... except Exception as e: raise HTTPException(500, str(e))
download_excel_response(filename, exists) ==
    LET body == DownloadBody(filename, exists)
    IN IF body.raised THEN HTTPException(500, body.detail) ELSE body

\* the inputs of the UI
PersonaCounts == MinPersonaCount..MaxPersonaCount
UILines == {KV("id", "persona_2"), KV("name", "Aoi"), TextLine}
UIResponses == SeqsUpTo(UILines, MaxResponseLines)
FewUIResponses ==
    {<<TextLine>>, <<KV("id", "persona_2"), KV("name", "Aoi")>>,
     <<KV("id", "persona_1"), KV("id", "persona_2"), KV("id", "persona_3"),
       KV("id", "persona_4"), KV("id", "persona_5")>>}
UIReplies == {"reply", "sorry"}
Filenames == {"report.xlsx", "missing.xlsx"}

(***************************************************************************)
(* The outcome of an operation, as its caller sees it                      *)
(***************************************************************************)
Returned(op, arg, ret, calls) ==
    [op |-> op, arg |-> arg, status |-> "ok", error |-> <<>>,
     ret |-> ret, calls |-> calls, exchanges |-> <<>>]

Raised(op, error, calls) ==
    [op |-> op, arg |-> <<>>, status |-> "error", error |-> error,
     ret |-> <<>>, calls |-> calls, exchanges |-> <<>>]

ProviderError == <<"ProviderError">>

\* what MaxSize caps: the personas, the sessions, the exchanges of the
\* sessions, the interviews and their answers, and the summaries generated
RECURSIVE Weight(_)
Weight(interviews) ==
    IF interviews = <<>> THEN 0
    ELSE 1 + Len(Head(interviews).answers) + Weight(Tail(interviews))

Size == Len(personas) + Len(chat_sessions) + Len(sent)
            + Weight(fixed_interviews) + summaries

Init ==
    /\ survey_requirements = None
    /\ personas = <<>>
    /\ chat_sessions = <<>>
    /\ fixed_interviews = <<>>
    /\ summary = None
    /\ now = 0
    /\ sent = <<>>
    /\ summaries = 0
    /\ session_state = InitialSessionState
    /\ last = Returned("__init__", <<>>, <<>>, 0)

\* the clock passes to the next second
Tick ==
    /\ now < MaxClock
    /\ now' = now + 1
    /\ UNCHANGED <<session_state, survey_requirements, personas, chat_sessions,
                   fixed_interviews, summary, sent, summaries, last>>

\* VirtualInterviewSystem.collect_survey_requirements
collect_survey_requirements(answers, outcome) ==
    IF outcome = Raises
    THEN /\ last' = Raised("collect_survey_requirements", ProviderError, 1)
         /\ UNCHANGED <<session_state,
                        survey_requirements, personas, chat_sessions,
                        fixed_interviews, summary, now, sent, summaries>>
    ELSE LET requirements == parse_requirements(answers, outcome[1])
         IN /\ survey_requirements' = Some(requirements)
            /\ last' = [Returned("collect_survey_requirements", <<answers>>,
                                 <<requirements>>, 1)
                           EXCEPT !.exchanges =
                               <<[prompt |-> answers, reply |-> outcome]>>]
            /\ UNCHANGED <<session_state,
                           personas, chat_sessions, fixed_interviews,
                           summary, now, sent, summaries>>

\* VirtualInterviewSystem.generate_personas
generate_personas(count, outcome) ==
    IF RequirementsMissing(survey_requirements)
    THEN /\ last' = Raised("generate_personas",
                           <<"ValueError", "Survey requirements not set">>, 0)
         /\ UNCHANGED <<session_state,
                        survey_requirements, personas, chat_sessions,
                        fixed_interviews, summary, now, sent, summaries>>
    ELSE IF outcome = Raises
    THEN /\ last' = Raised("generate_personas", ProviderError, 1)
         /\ UNCHANGED <<session_state,
                        survey_requirements, personas, chat_sessions,
                        fixed_interviews, summary, now, sent, summaries>>
    ELSE LET generated == GeneratedFrom[outcome[1]]
         IN /\ Size + Len(generated) <= MaxSize
            /\ Len(personas) + Len(generated) <= MaxPersonas
            /\ personas' = Extend(personas, generated)
            /\ last' = Returned("generate_personas", <<count>>, generated, 1)
            /\ UNCHANGED <<session_state, survey_requirements, chat_sessions,
                           fixed_interviews, summary, now, sent, summaries>>

\* VirtualInterviewSystem.start_chat_session
start_chat_session(persona_id) ==
    LET persona == FindPersona(personas, persona_id)
    IN IF persona = None
       THEN /\ last' = Raised("start_chat_session",
                              <<"ValueError", "Persona not found",
                                persona_id>>, 0)
            /\ UNCHANGED <<session_state,
                           survey_requirements, personas, chat_sessions,
                           fixed_interviews, summary, now, sent, summaries>>
       ELSE LET session == create_session(persona[1], now)
            IN /\ Size < MaxSize
               /\ chat_sessions' = Append(chat_sessions, session)
               /\ last' = Returned("start_chat_session", <<persona_id>>,
                                   <<session>>, 0)
               /\ UNCHANGED <<session_state, survey_requirements, personas,
                              fixed_interviews, summary, now, sent, summaries>>

\* VirtualInterviewSystem.send_chat_message
send_chat_message(session_id, message, raises) ==
    LET i == FindSession(chat_sessions, session_id)
    IN IF i = 0
       THEN /\ last' = Raised("send_chat_message",
                              <<"ValueError", "Session not found",
                                session_id>>, 0)
            /\ UNCHANGED <<session_state,
                           survey_requirements, personas, chat_sessions,
                           fixed_interviews, summary, now, sent, summaries>>
       ELSE IF raises
       THEN /\ last' = Raised("send_chat_message", ProviderError, 1)
            /\ UNCHANGED <<session_state,
                           survey_requirements, personas, chat_sessions,
                           fixed_interviews, summary, now, sent, summaries>>
       ELSE LET response ==
                    Reply(ChatPrompt(chat_sessions[i].persona, message))
            IN /\ Size < MaxSize
               /\ chat_sessions' =
                      [chat_sessions EXCEPT ![i].messages =
                          AppendTurns(@, message, response, now)]
               /\ sent' = Append(sent, [session_id |-> session_id,
                                        message |-> message,
                                        response |-> response])
               /\ last' = Returned("send_chat_message",
                                   <<session_id, message>>, <<response>>, 1)
               /\ UNCHANGED <<session_state, survey_requirements, personas,
                              fixed_interviews, summary, now, summaries>>

\* VirtualInterviewSystem.conduct_fixed_interviews
conduct_fixed_interviews_partial(persona_ids, questions, failure) ==
    LET selected == SelectedPersonas(personas, persona_ids)
        interviews == conduct_interviews(selected, questions)
    IN IF failure # 0
       THEN /\ last' = Raised("conduct_fixed_interviews", ProviderError,
                              failure)
            /\ fixed_interviews' =
                   fixed_interviews
                       \o SubSeq(interviews, 1,
                                 (failure - 1) \div Len(questions))
            /\ UNCHANGED <<session_state,
                           survey_requirements, personas, chat_sessions,
                           summary, now, sent, summaries>>
       ELSE /\ Size + Weight(interviews) <= MaxSize
            /\ fixed_interviews' = fixed_interviews \o interviews
            /\ last' = Returned("conduct_fixed_interviews",
                                <<persona_ids, questions>>, interviews,
                                NumCalls(selected, questions))
            /\ UNCHANGED <<session_state,
                           survey_requirements, personas, chat_sessions,
                           summary, now, sent, summaries>>

conduct_fixed_interviews(persona_ids, questions, failure) ==
    LET selected == SelectedPersonas(personas, persona_ids)
        interviews == conduct_interviews(selected, questions)
    IN IF failure # 0
       THEN /\ last' = Raised("conduct_fixed_interviews", ProviderError,
                              failure)
            /\ UNCHANGED <<session_state,
                           survey_requirements, personas, chat_sessions,
                           fixed_interviews, summary, now, sent, summaries>>
       ELSE /\ Size + Weight(interviews) <= MaxSize
            /\ fixed_interviews' = fixed_interviews \o interviews
            /\ last' = Returned("conduct_fixed_interviews",
                                <<persona_ids, questions>>, interviews,
                                NumCalls(selected, questions))
            /\ UNCHANGED <<session_state,
                           survey_requirements, personas, chat_sessions,
                           summary, now, sent, summaries>>

\* VirtualInterviewSystem.generate_summary
generate_summary_consuming(first, second) ==
    LET result == analyzer_generate_summary(personas, chat_sessions,
                                            fixed_interviews, first, second)
        exchanges == Exchanges(survey_requirements, chat_sessions,
                               fixed_interviews, first, second)
    IN IF result = None
       THEN /\ last' = Raised("generate_summary", ProviderError,
                              Len(exchanges))
            /\ UNCHANGED <<session_state,
                           survey_requirements, personas, chat_sessions,
                           fixed_interviews, summary, now, sent, summaries>>
       ELSE /\ Size < MaxSize
            /\ summary' = StoreSummary(summary, result[1])
            /\ summaries' = summaries + 1
            /\ fixed_interviews' = <<>>
            /\ last' = [Returned("generate_summary", <<>>,
                                 <<result[1], Charts(result[1])>>,
                                 Len(exchanges))
                           EXCEPT !.exchanges = exchanges]
            /\ UNCHANGED <<session_state,
                           survey_requirements, personas, chat_sessions,
                           now, sent>>
generate_summary(first, second) ==
    LET result == analyzer_generate_summary(personas, chat_sessions,
                                            fixed_interviews, first, second)
        exchanges == Exchanges(survey_requirements, chat_sessions,
                               fixed_interviews, first, second)
    IN IF result = None
       THEN /\ last' = Raised("generate_summary", ProviderError,
                              Len(exchanges))
            /\ UNCHANGED <<session_state,
                           survey_requirements, personas, chat_sessions,
                           fixed_interviews, summary, now, sent, summaries>>
       ELSE /\ Size < MaxSize
            /\ summary' = StoreSummary(summary, result[1])
            /\ summaries' = summaries + 1
            /\ last' = [Returned("generate_summary", <<>>,
                                 <<result[1], Charts(result[1])>>,
                                 Len(exchanges))
                           EXCEPT !.exchanges = exchanges]
            /\ UNCHANGED <<session_state,
                           survey_requirements, personas, chat_sessions,
                           fixed_interviews, now, sent>>

CollectSurveyRequirements(responses) ==
    \E answers \in AnswerLists, outcome \in Outcomes(responses) :
        collect_survey_requirements(answers, outcome)

GeneratePersonas(texts) ==
    \E count \in 1..MaxCount, outcome \in Outcomes(texts) :
        generate_personas(count, outcome)

StartChatSession(ids) ==
    \E persona_id \in ids : start_chat_session(persona_id)

SendChatMessage(ids, messages) ==
    \E session_id \in ids, message \in messages, raises \in BOOLEAN :
        send_chat_message(session_id, message, raises)

ConductFixedInterviews(id_lists, question_lists) ==
    \E persona_ids \in id_lists, questions \in question_lists :
        \E failure \in 0..NumCalls(SelectedPersonas(personas, persona_ids),
                                   questions) :
            conduct_fixed_interviews(persona_ids, questions, failure)

GenerateSummary(insight_texts, recommendation_texts) ==
    \E first \in Outcomes(insight_texts),
       second \in Outcomes(recommendation_texts) :
        generate_summary(first, second)

(***************************************************************************)
(* The orchestrator: every operation, on a small set of inputs             *)
(***************************************************************************)
Next ==
    \/ Tick
    \/ CollectSurveyRequirements(FewResponses)
    \/ GeneratePersonas(FewTexts)
    \/ StartChatSession(FewIds)
    \/ SendChatMessage(FewSessionIds, FewMessages)
    \/ ConductFixedInterviews(FewIdLists, FewQuestionLists)
    \/ GenerateSummary(FewInsightTexts, FewRecommendationTexts)

Spec == Init /\ [][Next]_vars

(***************************************************************************)
(* Persona generation on every response text of up to MaxLines lines       *)
(***************************************************************************)
NextGenerate ==
    \/ CollectSurveyRequirements(RequirementResponses)
    \/ GeneratePersonas(PersonaTexts)

SpecGenerate == Init /\ [][NextGenerate]_vars

(***************************************************************************)
(* Chat interviews                                                         *)
(***************************************************************************)
NextChat ==
    \/ Tick
    \/ CollectSurveyRequirements(FewResponses)
    \/ GeneratePersonas(FewTexts)
    \/ StartChatSession(PersonaIdArgs)
    \/ SendChatMessage(SessionIdArgs, UserMessages)

SpecChat == Init /\ [][NextChat]_vars

(***************************************************************************)
(* Fixed-question interviews                                               *)
(***************************************************************************)
NextFixed ==
    \/ CollectSurveyRequirements(FewResponses)
    \/ GeneratePersonas(FewTexts)
    \/ ConductFixedInterviews(IdLists, QuestionLists)

SpecFixed == Init /\ [][NextFixed]_vars

(***************************************************************************)
(* Analysis on every response text of up to MaxInsightLines and            *)
(* MaxRecommendationLines lines                                            *)
(***************************************************************************)
NextSummary ==
    \/ CollectSurveyRequirements(FewResponses)
    \/ GenerateSummary(InsightTexts, FewRecommendationTexts)
    \/ GenerateSummary(FewInsightTexts, RecommendationTexts)

SpecSummary == Init /\ [][NextSummary]_vars

(***************************************************************************)
(* Analysis of personas that differ in age, gender and occupation          *)
(***************************************************************************)
NextDemographics ==
    \/ CollectSurveyRequirements(FewResponses)
    \/ GeneratePersonas(DemographicTexts)
    \/ GenerateSummary(FewInsightTexts, FewRecommendationTexts)

SpecDemographics == Init /\ [][NextDemographics]_vars

(***************************************************************************)
(* frontend.py: the handlers of the buttons                                *)
(***************************************************************************)
\* the "generate personas" button, shown while no persona is stored
ui_generate_personas(persona_count, path, ai_response) ==
    /\ session_state.personas = <<>>
    /\ LET list == UIPersonas(persona_count, path, ai_response)
       IN /\ session_state' = [session_state EXCEPT !.personas = list]
          /\ last' = [Returned("ui_generate_personas",
                               <<persona_count, path>>, list,
                               IF path = "no_api_key" THEN 0 ELSE 1)
                         EXCEPT !.exchanges =
                             IF path = "response" THEN <<ai_response>>
                             ELSE <<>>]
    /\ UNCHANGED <<survey_requirements, personas, chat_sessions,
                   fixed_interviews, summary, now, sent, summaries>>

\* the "start interview" button of the chat tab, shown with the persona
\* selection while current_session is not truthy
ui_start_interview(selected_persona_idx) ==
    /\ session_state.personas # <<>>
    /\ ~Truthy(session_state.current_session)
    /\ selected_persona_idx >= 0
    /\ session_state' =
           [session_state EXCEPT
               !.current_session = Some(selected_persona_idx),
               !.chat_messages = <<>>]
    /\ last' = Returned("ui_start_interview", <<selected_persona_idx>>,
                        <<>>, 0)
    /\ UNCHANGED <<survey_requirements, personas, chat_sessions,
                   fixed_interviews, summary, now, sent, summaries>>

\* a message entered in the chat interface, shown while current_session is
\* truthy: the user's message and the reply are appended
ui_send_message(user_message, persona_response) ==
    /\ session_state.personas # <<>>
    /\ Truthy(session_state.current_session)
    /\ Len(session_state.chat_messages) < 2 * MaxExchanges
    /\ session_state' =
           [session_state EXCEPT !.chat_messages =
               @ \o <<[role |-> "user", content |-> user_message],
                      [role |-> "assistant", content |-> persona_response]>>]
    /\ last' = Returned("ui_send_message", <<user_message>>,
                        <<persona_response>>, 0)
    /\ UNCHANGED <<survey_requirements, personas, chat_sessions,
                   fixed_interviews, summary, now, sent, summaries>>

\* the "end interview" button of the chat interface
ui_end_interview ==
    /\ session_state.personas # <<>>
    /\ Truthy(session_state.current_session)
    /\ session_state' = [session_state EXCEPT !.current_session = None]
    /\ last' = Returned("ui_end_interview", <<>>, <<>>, 0)
    /\ UNCHANGED <<survey_requirements, personas, chat_sessions,
                   fixed_interviews, summary, now, sent, summaries>>

\* app.py download_excel: the request is answered with a status code
download_excel(filename, exists) ==
    /\ last' = Returned("download_excel", <<filename, exists>>,
                        <<download_excel_response(filename, exists)>>, 0)
    /\ UNCHANGED <<survey_requirements, personas, chat_sessions,
                   fixed_interviews, summary, now, sent, summaries,
                   session_state>>

UIGeneratePersonas(counts, responses) ==
    \E persona_count \in counts :
        \/ ui_generate_personas(persona_count, "no_api_key", <<>>)
        \/ ui_generate_personas(persona_count, "provider_error", <<>>)
        \/ \E ai_response \in responses :
               ui_generate_personas(persona_count, "response", ai_response)

UIStartInterview ==
    \E k \in -1..(Len(session_state.personas) - 1) : ui_start_interview(k)

UISendMessage(messages, replies) ==
    \E m \in messages, r \in replies : ui_send_message(m, r)

DownloadExcel(filenames) ==
    \E filename \in filenames, exists \in BOOLEAN :
        download_excel(filename, exists)

(***************************************************************************)
(* The persona-generation step of the UI on every response of up to        *)
(* MaxResponseLines lines                                                  *)
(***************************************************************************)
NextPersonaStep ==
    UIGeneratePersonas(PersonaCounts, UIResponses)

SpecPersonaStep == Init /\ [][NextPersonaStep]_vars

(***************************************************************************)
(* The chat tab of the UI                                                  *)
(***************************************************************************)
NextChatTab ==
    \/ UIGeneratePersonas(PersonaCounts, FewUIResponses)
    \/ UIStartInterview
    \/ UISendMessage(UserMessages, UIReplies)
    \/ ui_end_interview

SpecChatTab == Init /\ [][NextChatTab]_vars

(***************************************************************************)
(* The API: the orchestrator behind its endpoints, and the download        *)
(***************************************************************************)
NextApi ==
    \/ CollectSurveyRequirements(FewResponses)
    \/ GeneratePersonas(FewTexts)
    \/ StartChatSession(FewIds)
    \/ DownloadExcel(Filenames)

SpecApi == Init /\ [][NextApi]_vars

(***************************************************************************)
(* Properties                                                              *)
(***************************************************************************)
DistinctIds(ps) ==
    \A i, j \in 1..Len(ps) : i # j => ps[i].id # ps[j].id

HasPersona(persona_id) == \E i \in 1..Len(personas) : personas[i].id = persona_id

HasSession(session_id) ==
    \E i \in 1..Len(chat_sessions) : chat_sessions[i].session_id = session_id

\* C1: a generate_personas call made once the requirements are set returns,
\* whatever text the provider gave, exactly count personas whose ids are
\* pairwise distinct.
C1_ExactlyCountDistinct ==
    (last.op = "generate_personas" /\ last.status = "ok") =>
        /\ Len(last.ret) = last.arg[1]
        /\ DistinctIds(last.ret)

\* C2: in every reachable state no two personas of state.personas have the
\* same id.
C2_UniquePersonaIds == DistinctIds(personas)

\* C3: in every reachable state the sessions of state.chat_sessions have
\* pairwise distinct session ids, also when start_chat_session is called twice
\* for one persona within one second.
C3_UniqueSessionIds ==
    \A i, j \in 1..Len(chat_sessions) :
        i # j => chat_sessions[i].session_id # chat_sessions[j].session_id

\* the turns that the successful calls made with session_id should have left
RECURSIVE ExpectedTurns(_, _)
ExpectedTurns(calls, session_id) ==
    IF calls = <<>> THEN <<>>
    ELSE (IF Head(calls).session_id = session_id
          THEN <<<<"user", Head(calls).message>>,
                 <<"assistant", Head(calls).response>>>>
          ELSE <<>>)
         \o ExpectedTurns(Tail(calls), session_id)

Turns(session) ==
    [k \in 1..Len(session.messages) |->
        <<session.messages[k].role, session.messages[k].content>>]

\* C4: every session created by start_chat_session holds exactly the turns of
\* the successful send_chat_message calls made with its id: two per call,
\* user then assistant, the k-th pair carrying the text and the reply of the
\* k-th call.
C4_TurnsMatchCalls ==
    \A i \in 1..Len(chat_sessions) :
        Turns(chat_sessions[i]) =
            ExpectedTurns(sent, chat_sessions[i].session_id)

\* the interview of persona p on the given questions
AlignedInterview(interview, p, questions) ==
    /\ interview.persona = p
    /\ interview.questions = questions
    /\ Len(interview.answers) = Len(questions)
    /\ \A k \in 1..Len(questions) :
           interview.answers[k] = Reply(AnswerPrompt(p, questions[k]))

\* C5: conduct_fixed_interviews returns, for every persona of the state whose
\* id is among persona_ids, an interview with the input questions and one
\* answer per question, answers[k] answering questions[k], also when provider
\* calls fail.
C5_AlignedAnswers ==
    last.op = "conduct_fixed_interviews" =>
        /\ last.status = "ok"
        /\ \A i \in 1..Len(personas) :
               personas[i].id \in Range(last.arg[1]) =>
                   \E k \in 1..Len(last.ret) :
                       AlignedInterview(last.ret[k], personas[i], last.arg[2])

\* C6: a provider failure on one (persona, question) call of
\* conduct_fixed_interviews is caught: the operation completes and no provider
\* error reaches the caller.
C6_FailureCaught ==
    last.op = "conduct_fixed_interviews" => last.error # ProviderError

\* the place of the first occurrence of persona_id in persona_ids
FirstIndex(persona_ids, persona_id) ==
    CHOOSE k \in 1..Len(persona_ids) :
        /\ persona_ids[k] = persona_id
        /\ \A j \in 1..(k - 1) : persona_ids[j] # persona_id

\* C7: the interviews conduct_fixed_interviews returns are in the order in
\* which their persona ids appear in the persona_ids argument.
C7_OrderOfPersonaIds ==
    (last.op = "conduct_fixed_interviews" /\ last.status = "ok") =>
        \A i, j \in 1..Len(last.ret) :
            i < j =>
                FirstIndex(last.arg[1], last.ret[i].persona.id)
                    <= FirstIndex(last.arg[1], last.ret[j].persona.id)

\* C8: while the survey requirements are unset, generate_personas raises the
\* "Survey requirements not set" error without calling the provider, and no
\* persona ever enters the state.
C8_RequirementsNotSet ==
    survey_requirements = None =>
        /\ personas = <<>>
        /\ last.op = "generate_personas" =>
               /\ last.status = "error"
               /\ last.error = <<"ValueError", "Survey requirements not set">>
               /\ last.calls = 0

C8_Witness ==
    /\ survey_requirements = None
    /\ last.op = "generate_personas"
    /\ last.status = "error"

\* C9 as stated: while state.personas is empty, start_chat_session,
\* send_chat_message and conduct_fixed_interviews all fail.
C9_AllFailWithoutPersonas ==
    (personas = <<>> /\ last.op \in {"start_chat_session", "send_chat_message",
                                    "conduct_fixed_interviews"}) =>
        last.status = "error"

\* C9 amended: while state.personas is empty, start_chat_session and
\* send_chat_message raise the not-found ValueError without calling the
\* provider, whereas conduct_fixed_interviews returns an empty list without
\* calling the provider; no session and no interview is stored.
C9_WithoutPersonas ==
    personas = <<>> =>
        /\ chat_sessions = <<>>
        /\ fixed_interviews = <<>>
        /\ last.op \in {"start_chat_session", "send_chat_message"} =>
               /\ last.status = "error"
               /\ last.error[1] = "ValueError"
               /\ last.calls = 0
        /\ last.op = "conduct_fixed_interviews" =>
               /\ last.status = "ok"
               /\ last.ret = <<>>
               /\ last.calls = 0

C9_Witness ==
    /\ personas = <<>>
    /\ last.op = "conduct_fixed_interviews"
    /\ last.arg = <<<<"persona_1">>, <<"Q1">>>>

\* C10: start_chat_session with an id of no persona, and send_chat_message
\* with an id of no session, raise a ValueError that names the id, call the
\* provider zero times and add neither a session nor a turn; they return
\* normally only for an id that is matched.
C10_NotFound ==
    [][LET result == last'
       IN /\ (result.op = "start_chat_session" /\ result.status = "ok")
                 => HasPersona(result.arg[1])
          /\ (result.op = "start_chat_session" /\ result.status = "error")
                 => /\ result.error[1] = "ValueError"
                    /\ result.error[2] = "Persona not found"
                    /\ ~HasPersona(result.error[3])
                    /\ result.calls = 0
                    /\ UNCHANGED <<chat_sessions, sent>>
          /\ (result.op = "send_chat_message" /\ result.status = "ok")
                 => HasSession(result.arg[1])
          /\ (result.op = "send_chat_message" /\ result.status = "error"
                 /\ result.error # ProviderError)
                 => /\ result.error[1] = "ValueError"
                    /\ result.error[2] = "Session not found"
                    /\ ~HasSession(result.error[3])
                    /\ result.calls = 0
                    /\ UNCHANGED <<chat_sessions, sent>>]_vars

C10_Witness ==
    /\ personas # <<>>
    /\ chat_sessions # <<>>
    /\ last.op = "send_chat_message"
    /\ last.error # <<>>
    /\ last.error # ProviderError

\* the personas of the state whose id occurs in persona_ids
Matching(persona_ids) ==
    {i \in 1..Len(personas) : personas[i].id \in Range(persona_ids)}

\* C11: conduct_fixed_interviews never fails on account of an id that matches
\* no persona: it fails only with the provider's error, after a provider call
\* made for a matched persona; when it returns, it returns one interview per
\* persona of the state whose id occurs in persona_ids (none when no id
\* matches), each for such a persona.
C11_UnmatchedSkipped ==
    last.op = "conduct_fixed_interviews" =>
        /\ last.status = "ok" =>
               /\ Len(last.ret) = Cardinality(Matching(last.arg[1]))
               /\ \A k \in 1..Len(last.ret) :
                      last.ret[k].persona.id \in Range(last.arg[1])
        /\ last.status = "error" =>
               /\ last.error = ProviderError
               /\ last.calls >= 1

C11_Witness ==
    /\ last.op = "conduct_fixed_interviews"
    /\ last.status = "ok"
    /\ last.arg[1] = <<"unknown", "persona_1">>
    /\ Len(last.ret) = 1

\* a generate_summary call that returned is the latest operation
Summarized == last.op = "generate_summary" /\ last.status = "ok"

\* C12: the summary generate_summary returns has total_personas equal to the
\* number of personas in the state and total_interviews equal to the number
\* of chat sessions plus the number of fixed interviews in the state.
C12_Totals ==
    Summarized =>
        /\ last.ret[1].total_personas = Len(personas)
        /\ last.ret[1].total_interviews
               = Len(chat_sessions) + Len(fixed_interviews)

C12_Witness ==
    /\ Summarized
    /\ personas # <<>>
    /\ chat_sessions # <<>>
    /\ fixed_interviews # <<>>

\* no requirements, no personas, no sessions, no fixed interviews
Empty ==
    /\ survey_requirements = None
    /\ personas = <<>>
    /\ chat_sessions = <<>>
    /\ fixed_interviews = <<>>

\* C13: on an orchestrator without requirements, personas, sessions and fixed
\* interviews, generate_summary fails for no reason but a failure of the
\* provider; when the provider answers, it returns total_personas = 0,
\* total_interviews = 0 and empty age, gender and occupation distributions,
\* having passed the empty string as category and as purpose to the provider.
C13_EmptyState ==
    (Empty /\ last.op = "generate_summary") =>
        /\ last.status = "error" => last.error = ProviderError
        /\ last.status = "ok" =>
               LET demographics == last.ret[1].quantitative_results.demographics
               IN /\ last.ret[1].total_personas = 0
                  /\ last.ret[1].total_interviews = 0
                  /\ DOMAIN demographics.age_distribution = {}
                  /\ DOMAIN demographics.gender_distribution = {}
                  /\ DOMAIN demographics.occupation_distribution = {}
                  /\ last.exchanges[2].prompt.product_category = ""
                  /\ last.exchanges[2].prompt.survey_purpose = ""

C13_Witness ==
    /\ Empty
    /\ Summarized
    /\ summaries = 1

\* the lines of a response that are not the empty string
NonEmptyLines(result) == SeqFilter(result, Range(result) \ {<<>>})

\* C14 as stated: key_insights is the first min(5, k) non-empty lines of the
\* insight response, in their order, and recommendations the first min(3, m)
\* non-empty lines of the recommendation response.
C14_FirstNonEmptyLines ==
    Summarized =>
        /\ last.ret[1].key_insights
               = Take(NonEmptyLines(last.exchanges[1].reply[1]), 5)
        /\ last.ret[1].recommendations
               = Take(NonEmptyLines(last.exchanges[2].reply[1]), 3)

\* the places of the lines of a response that hold a character other than
\* white space, and the n-th of them
NonBlank(result) ==
    {i \in 1..Len(result) : \E j \in 1..Len(result[i]) : result[i][j] # Space}

Nth(places, n) ==
    CHOOSE i \in places : Cardinality({j \in places : j < i}) = n - 1

\* list holds the first lines of result, at most most of them, that are not
\* blank, each without its leading and trailing white space
FirstNonBlank(list, result, most) ==
    /\ Len(list) = IF Cardinality(NonBlank(result)) < most
                   THEN Cardinality(NonBlank(result)) ELSE most
    /\ \A n \in 1..Len(list) :
           /\ list[n] = StripChars(result[Nth(NonBlank(result), n)])
           /\ list[n] # <<>>

\* C14 amended: key_insights is the first min(5, k) lines of the insight
\* response that hold a character other than white space, in their order and
\* each stripped of leading and trailing white space (k the number of such
\* lines), and recommendations is the same of the recommendation response
\* with 3 for 5; neither list is padded or holds an empty string.
C14_FirstNonBlankLines ==
    Summarized =>
        /\ FirstNonBlank(last.ret[1].key_insights,
                         last.exchanges[1].reply[1], 5)
        /\ FirstNonBlank(last.ret[1].recommendations,
                         last.exchanges[2].reply[1], 3)

C14_Witness ==
    /\ Summarized
    /\ Len(last.exchanges[1].reply[1]) > 5
    /\ Cardinality(NonBlank(last.exchanges[1].reply[1])) > 5
    /\ <<Space>> \in Range(last.exchanges[1].reply[1])
    /\ last.ret[1].key_insights
           = <<<<"b">>, <<"a">>, <<"a">>, <<"a">>, <<"a">>>>

\* C15: after generate_summary returns, state.summary is the summary it
\* returned, and that summary is made of the present state and of the two
\* responses of this call alone: a second call replaces the summary of the
\* first, of which nothing is kept.
C15_LatestSummary ==
    Summarized =>
        /\ summary = Some(last.ret[1])
        /\ last.ret[1] =
               InterviewSummary(personas, chat_sessions, fixed_interviews,
                                KeyInsights(last.exchanges[1].reply[1]),
                                Recommendations(last.exchanges[2].reply[1]))

C15_Witness ==
    /\ Summarized
    /\ summaries = 2
    /\ summary[1].key_insights = <<<<"a">>>>
    /\ personas # <<>>

\* C16: when the provider fails on the insight call or on the recommendation
\* call, generate_summary fails with the provider's error: it returns nothing,
\* no summary with substituted insights or recommendations is made, and
\* state.summary keeps its value.
C16_ProviderFailure ==
    [][LET result == last'
       IN /\ (result.op = "generate_summary" /\ result.status = "ok") =>
                 \A e \in 1..Len(result.exchanges) :
                     result.exchanges[e].reply # Raises
          /\ (result.op = "generate_summary" /\ result.status = "error") =>
                 /\ result.error = ProviderError
                 /\ result.ret = <<>>
                 /\ summary' = summary]_vars

C16_Witness ==
    /\ last.op = "generate_summary"
    /\ last.status = "error"
    /\ last.calls = 2
    /\ summary # None

\* a response that cannot be turned into a SurveyRequirements: malformed
\* JSON, JSON that is no object, or an object without a required field
Unparsable(reply) ==
    \/ reply.kind # "object"
    \/ \E field \in {"product_category", "target_age_range", "target_gender",
                     "survey_purpose", "key_questions"} :
           field \notin DOMAIN reply.data

\* C17: collect_survey_requirements raises nothing of its own (it fails only
\* when the provider call itself fails), and for a provider response that
\* cannot be turned into a SurveyRequirements it returns, and stores, the
\* record whose product_category, target_age_range, target_gender,
\* survey_purpose and additional_requirements are answers 1 to 5 and whose
\* key_questions is the fixed list of three default questions.
C17_Fallback ==
    last.op = "collect_survey_requirements" =>
        /\ last.status = "error" => last.error = ProviderError
        /\ (last.status = "ok" /\ Unparsable(last.exchanges[1].reply[1])) =>
               LET answers == last.arg[1]
                   requirements == last.ret[1]
               IN /\ requirements.product_category = answers[1]
                  /\ requirements.target_age_range = answers[2]
                  /\ requirements.target_gender = answers[3]
                  /\ requirements.survey_purpose = answers[4]
                  /\ requirements.additional_requirements = answers[5]
                  /\ requirements.key_questions
                         = <<"usage experience", "purchase drivers",
                             "improvement points">>
                  /\ survey_requirements = Some(requirements)

C17_Witness ==
    /\ last.op = "collect_survey_requirements"
    /\ last.status = "ok"
    /\ last.exchanges[1].reply[1].kind = "object"
    /\ Unparsable(last.exchanges[1].reply[1])

\* C18: once state.survey_requirements is set, no later operation, another
\* collect_survey_requirements included, changes it.
C18_RequirementsImmutable ==
    [][survey_requirements # None
           => survey_requirements' = survey_requirements]_vars

\* C19: state.personas changes only by a generate_personas call that returns,
\* and such a call leaves the personas already there as a prefix and appends
\* the personas it returns, in the order returned.
C19_AppendOnly ==
    [][LET generated == /\ last'.op = "generate_personas"
                        /\ last'.status = "ok"
       IN (personas' # personas \/ (generated /\ last' # last)) =>
              /\ generated
              /\ personas' = personas \o last'.ret]_vars

C19_Witness ==
    /\ last.op = "generate_personas"
    /\ last.status = "ok"
    /\ Len(last.ret) = 1
    /\ Len(personas) = 2

\* C20: start_chat_session, send_chat_message and conduct_fixed_interviews
\* leave state.survey_requirements and state.personas as they were, and
\* generate_summary leaves the requirements, the personas, the chat sessions
\* with their turns and the fixed interviews as they were.
C20_UpstreamUntouched ==
    [][/\ last'.op \in {"start_chat_session", "send_chat_message",
                        "conduct_fixed_interviews", "generate_summary"}
              => UNCHANGED <<survey_requirements, personas>>
       /\ last'.op = "generate_summary"
              => UNCHANGED <<chat_sessions, fixed_interviews>>]_vars

C20_Witness ==
    /\ Summarized
    /\ survey_requirements # None
    /\ \E i \in 1..Len(chat_sessions) : chat_sessions[i].messages # <<>>

\* the sum of the counts of a distribution
RECURSIVE Total(_)
Total(distribution) ==
    IF DOMAIN distribution = {} THEN 0
    ELSE LET k == CHOOSE key \in DOMAIN distribution : TRUE
         IN distribution[k]
                + Total([key \in DOMAIN distribution \ {k} |->
                            distribution[key]])

\* distribution counts, under each key, the personas of the state with that
\* key, keys being the keys of the personas in their order
CountsPersonas(distribution, keys) ==
    /\ Total(distribution) = Len(personas)
    /\ DOMAIN distribution = {keys[i] : i \in 1..Len(personas)}
    /\ \A i \in 1..Len(personas) :
           distribution[keys[i]]
               = Cardinality({j \in 1..Len(personas) : keys[j] = keys[i]})

\* C21: in the summary generate_summary returns, every persona of the state
\* is counted once in the age, the gender and the occupation distribution:
\* the counts of each sum to the number of personas; the age key is
\* (age // 10) * 10 followed by the unit label, the gender and occupation keys
\* are the strings as they stand, strings that differ in letter case being
\* separate keys.
C21_CountedOnce ==
    Summarized =>
        LET demographics == last.ret[1].quantitative_results.demographics
        IN /\ CountsPersonas(demographics.age_distribution,
                  [i \in 1..Len(personas) |->
                      ToString((personas[i].age \div 10) * 10) \o "s"])
           /\ CountsPersonas(demographics.gender_distribution,
                  [i \in 1..Len(personas) |-> personas[i].gender])
           /\ CountsPersonas(demographics.occupation_distribution,
                  [i \in 1..Len(personas) |-> personas[i].occupation])

C21_Witness ==
    /\ Summarized
    /\ Len(personas) = 2
    /\ LET demographics == last.ret[1].quantitative_results.demographics
       IN /\ DOMAIN demographics.gender_distribution = {"Female", "female"}
          /\ demographics.age_distribution = [k \in {"20s"} |-> 2]

\* the segments of a provider response that carry an age value int() rejects
BadAgeSegments(text) ==
    {i \in 1..Len(Sections(text)) :
        LET lines == SectionLines(Sections(text)[i])
        IN lines # <<>> /\ SectionAge(lines) = None}

\* C22: when a segment of the provider response carries an age value that
\* cannot be converted to an integer, the list generate_personas returns
\* still holds a persona for that segment, with age 30 and the segment's
\* identifier (its ID line, or persona_<segment number> without one); stated
\* for every response that yields the returned list.
C22_AgeDefaultsTo30 ==
    (last.op = "generate_personas" /\ last.status = "ok") =>
        \A text \in PersonaTexts :
            GeneratedFrom[text] = last.ret =>
                \A i \in BadAgeSegments(text) :
                    \E k \in 1..Len(last.ret) :
                        /\ last.ret[k].age = 30
                        /\ last.ret[k].id =
                               Get(SectionLines(Sections(text)[i]), "ID",
                                   "persona_" \o ToString(i))

\* C23: a start_chat_session call that returns appends exactly one session
\* to the end of chat_sessions; that session holds no turn and no end_time,
\* its persona is a persona of the state that has the given id, the session
\* returned is the one stored, and the sessions that existed before are
\* unchanged.
C23_AppendsOneEmptySession ==
    [][(last'.op = "start_chat_session" /\ last'.status = "ok" /\ now' = now)
           => LET session == last'.ret[1]
              IN /\ chat_sessions' = Append(chat_sessions, session)
                 /\ session.messages = <<>>
                 /\ session.end_time = None
                 /\ session.persona.id = last'.arg[1]
                 /\ \E i \in 1..Len(personas) : personas[i] = session.persona
                 /\ personas' = personas]_vars

C23_Witness ==
    /\ last.op = "start_chat_session"
    /\ last.status = "ok"
    /\ Len(chat_sessions) = 2
    /\ chat_sessions[2] = last.ret[1]
    /\ chat_sessions[1].messages # <<>>

\* C24: a send_chat_message call that returns appends its two turns, the
\* user's text then the reply, to every session started under the session id
\* it was made with, and leaves the turns of every session with another id
\* as they were.
C24_IndependentSessions ==
    [][(last'.op = "send_chat_message" /\ last'.status = "ok"
            /\ sent' # sent)
           => \A i \in 1..Len(chat_sessions) :
                  IF chat_sessions[i].session_id = last'.arg[1]
                  THEN Turns(chat_sessions'[i])
                           = Turns(chat_sessions[i])
                                 \o <<<<"user", last'.arg[2]>>,
                                      <<"assistant", last'.ret[1]>>>>
                  ELSE chat_sessions'[i] = chat_sessions[i]]_vars

\* C25: a conduct_fixed_interviews call that returns has made one provider
\* call per pair of a selected persona and a question, s x q in all, also
\* when a question occurs twice in the list or the same call was made
\* before; with no question it makes no call and returns, and stores, for
\* each selected persona an interview with empty questions and answers.
C25_OneCallPerPair ==
    (last.op = "conduct_fixed_interviews" /\ last.status = "ok") =>
        LET s == Cardinality(Matching(last.arg[1]))
            q == Len(last.arg[2])
        IN /\ last.calls = s * q
           /\ Len(last.ret) = s
           /\ \A k \in 1..s : Len(last.ret[k].answers) = q
           /\ q = 0 =>
                  /\ last.calls = 0
                  /\ \A k \in 1..s : /\ last.ret[k].questions = <<>>
                                     /\ last.ret[k].answers = <<>>
                  /\ Len(fixed_interviews) >= s
                  /\ \A k \in 1..s :
                         fixed_interviews[Len(fixed_interviews) - s + k]
                             = last.ret[k]

\* one persona asked the same question twice: two calls
C25_Witness ==
    /\ last.op = "conduct_fixed_interviews"
    /\ last.status = "ok"
    /\ last.arg[2] = <<"Q1", "Q1">>
    /\ Cardinality(Matching(last.arg[1])) = 1
    /\ last.calls = 2

C28_ReferentialIntegrity ==
    /\ \A i \in 1..Len(chat_sessions) :
           \E k \in 1..Len(personas) : personas[k] = chat_sessions[i].persona
    /\ \A i \in 1..Len(fixed_interviews) :
           \E k \in 1..Len(personas) :
               personas[k] = fixed_interviews[i].persona

\* a session and an interview, the personas list extended afterwards
C28_Witness ==
    /\ Len(chat_sessions) >= 1
    /\ Len(fixed_interviews) >= 1
    /\ Len(personas) = 2
    /\ chat_sessions[1].persona = personas[1]
    /\ last.op = "generate_personas"
    /\ last.status = "ok"
    /\ Len(last.ret) = 1

\* the id of a UI persona: Some(id), or None for a dict without the key
IdOf(persona) == IF "id" \in DOMAIN persona THEN Some(persona.id) ELSE None

\* the list positions (0-based) the step filled with sample personas
Placeholders ==
    IF last.exchanges = <<>> THEN 0..(Len(last.ret) - 1)
    ELSE Len(ExtractPersonas(last.exchanges[1], EmptyDict, <<>>))
             ..(Len(last.ret) - 1)

\* C26: whichever path the persona-generation step of the UI takes, the list
\* it stores in the session state has exactly persona_count entries, their
\* ids are pairwise distinct, and the sample persona at list position i has
\* id persona_(i+1), age 25 + 5 i, and a gender alternating with the parity
\* of i.
C26_ExactlyPersonaCount ==
    last.op = "ui_generate_personas" =>
        LET list == session_state.personas
        IN /\ list = last.ret
           /\ Len(list) = last.arg[1]
           /\ \A i, j \in 1..Len(list) :
                  i # j => IdOf(list[i]) # IdOf(list[j])
           /\ \A i \in Placeholders :
                  /\ list[i + 1].id = "persona_" \o ToString(i + 1)
                  /\ list[i + 1].age = 25 + (5 * i)
                  /\ list[i + 1].gender
                         = (IF i % 2 = 0 THEN "female" ELSE "male")

\* the persona the chat interface of the UI is open for: Some(k), or None
\* while the persona selection is shown
ChatModePersona ==
    IF Truthy(session_state.current_session)
    THEN session_state.current_session
    ELSE None

\* C29: pressing the start-interview button with a selected persona index k
\* (the first persona, k = 0, included) puts the UI in chat mode for persona
\* k with an empty message history, and the UI stays in chat mode for that
\* persona until the end-interview button is pressed.
C29_StartEntersChatMode ==
    [][/\ (last'.op = "ui_start_interview"
              => /\ ChatModePersona' = Some(last'.arg[1])
                 /\ session_state'.chat_messages = <<>>)
       /\ ((ChatModePersona # None /\ last'.op # "ui_end_interview")
              => ChatModePersona' = ChatModePersona)]_vars

\* C30: the download endpoint answers a request for a file that does not
\* exist under the output directory with status 404, File not found.
C30_MissingFileIs404 ==
    (last.op = "download_excel" /\ ~last.arg[2]) =>
        /\ last.ret[1].status_code = 404
        /\ last.ret[1].detail = "File not found"
====
